---- MODULE Spec2Model ----
(***************************************************************************)
(* Model of the SpotBugs analyzer-result converter                         *)
(* (codechecker_report_converter/analyzers/spotbugs/analyzer_result.py).   *)
(*                                                                         *)
(* An AnalyzerResult instance holds two private fields, the candidate      *)
(* roots (__project_paths) and the File interning table (__file_cache).    *)
(* Its one public operation is get_reports(file_path).  The XML document   *)
(* behind file_path is modelled as a value: a Project section and a        *)
(* sequence of BugInstance elements.  Optional values (an absent element,  *)
(* an absent attribute, Python's None) are sequences of length 0 or 1.     *)
(***************************************************************************)
EXTENDS Integers, Sequences, FiniteSets, TLC

VARIABLES project_paths, file_cache, doc, result, calls

vars == <<project_paths, file_cache, doc, result, calls>>

----------------------------------------------------------------------------
(* Optional values *)

None == <<>>

Some(x) == <<x>>

IsNone(o) == o = <<>>

----------------------------------------------------------------------------
(* Bounds of the model *)

MaxCalls == 2

MaxBugs == 2

MaxChildren == 3

MaxProjectChildren == 2

----------------------------------------------------------------------------
(* The filesystem the converter runs on.  A path is the sequence of its    *)
(* components, an absolute path starting with the component "/".           *)

Root == <<"/">>

Cwd == <<"/", "w">>

FSDirs == { Root, <<"/", "r1">>, <<"/", "r2">>, Cwd }

FSFiles == { <<"/", "r1", "F">>, <<"/", "r2", "F">>, <<"/", "r2", "G">>,
             <<"/", "r1", "J">>, <<"/", "r1", "H">>, <<"/", "w", "H">> }

IsAbs(p) == p # <<>> /\ p[1] = "/"

\* os.path.join(a, b): an absolute b discards a
Join(a, b) == IF IsAbs(b) THEN b ELSE a \o b

\* the absolute form the operating system looks a path up by
Normal(p) == Join(Cwd, p)

\* os.path.exists / isdir / isfile; the empty path names nothing
Exists(p) == p # <<>> /\ Normal(p) \in (FSDirs \cup FSFiles)

IsDir(p) == p # <<>> /\ Normal(p) \in FSDirs

IsFile(p) == p # <<>> /\ Normal(p) \in FSFiles

\* os.path.dirname
Dirname(p) == IF Len(p) <= 1 THEN (IF IsAbs(p) THEN p ELSE <<>>)
              ELSE SubSeq(p, 1, Len(p) - 1)

----------------------------------------------------------------------------
(* Python values the code relies on *)

NoException == "None"

Digits == { "0", "1", "2", "3", "4", "5", "6", "7", "8", "9" }

DigitValue(c) ==
    CASE c = "0" -> 0 [] c = "1" -> 1 [] c = "2" -> 2 [] c = "3" -> 3
      [] c = "4" -> 4 [] c = "5" -> 5 [] c = "6" -> 6 [] c = "7" -> 7
      [] c = "8" -> 8 [] c = "9" -> 9

HasSign(s) == s # <<>> /\ s[1] \in { "-", "+" }

Unsigned(s) == IF HasSign(s) THEN Tail(s) ELSE s

\* int(s) accepts an optional sign followed by at least one digit
IsIntLiteral(s) ==
    /\ Unsigned(s) # <<>>
    /\ \A i \in 1..Len(Unsigned(s)) : Unsigned(s)[i] \in Digits

RECURSIVE DecimalValue(_, _)
DecimalValue(s, acc) ==
    IF s = <<>> THEN acc
    ELSE DecimalValue(Tail(s), 10 * acc + DigitValue(Head(s)))

\* int() that loses the sign
IntOf_unsigned(s) == DecimalValue(Unsigned(s), 0)

\* int(s) of a string s that is an integer literal; a string is the
\* sequence of its characters
IntOf(s) ==
    IF s[1] = "-" THEN 0 - DecimalValue(Unsigned(s), 0)
    ELSE DecimalValue(Unsigned(s), 0)

----------------------------------------------------------------------------
(* The report model the converter produces (codechecker_report_converter.  *)
(* report: File, get_or_create_file, BugPathEvent, Report)                 *)

File(path) == [path |-> path]

\* get_or_create_file(path, cache): the table after the call; the File
\* returned is the one File of that path
get_or_create_file(path, cache) == cache \cup { File(path) }

BugPathEvent(message, file, line, column) ==
    [message |-> message, file |-> file, line |-> line, column |-> column]

Report(file, line, column, message, checker_name, report_hash, events) ==
    [file |-> file, line |-> line, column |-> column, message |-> message,
     checker_name |-> checker_name, report_hash |-> report_hash,
     bug_path_events |-> events]

----------------------------------------------------------------------------
(* __get_abs_path *)

\* the loop over the roots keeping the last root that matches
first_full_path_last(paths, source_path, i) ==
    LET hits == { j \in i..Len(paths) : Exists(Join(paths[j], source_path)) }
    IN  IF hits = {} THEN None
        ELSE Some(Join(paths[CHOOSE j \in hits : \A k \in hits : k <= j],
                       source_path))

RECURSIVE first_full_path(_, _, _)
first_full_path(paths, source_path, i) ==
    IF i > Len(paths) THEN None
    ELSE LET full_path == Join(paths[i], source_path)
         IN  IF Exists(full_path) THEN Some(full_path)
             ELSE first_full_path(paths, source_path, i + 1)

get_abs_path(source_path, paths) ==
    IF Exists(source_path) THEN Some(source_path)
    ELSE first_full_path(paths, source_path, 1)

(* __get_source_path: source_line is the optional <SourceLine> element *)
get_source_path(source_line, paths) ==
    IF IsNone(source_line) THEN None
    ELSE IF IsNone(source_line[1].sourcepath) THEN None
    ELSE get_abs_path(source_line[1].sourcepath[1], paths)

----------------------------------------------------------------------------
(* __get_project_paths *)

\* every child of Project taken for a path
RecognizedTags_any == { "Jar", "AuxClasspathEntry", "SrcDir", "Plugin" }

RecognizedTags == { "Jar", "AuxClasspathEntry", "SrcDir" }

RECURSIVE project_walk(_, _, _)
project_walk(project, i, paths) ==
    IF i > Len(project) THEN [exc |-> NoException, paths |-> paths]
    ELSE LET element == project[i]
         IN  IF element.tag \in RecognizedTags
             THEN IF IsNone(element.text)
                  THEN [exc |-> "TypeError", paths |-> paths]
                  ELSE LET file_path == element.text[1]
                       IN  IF IsDir(file_path)
                           THEN project_walk(project, i + 1,
                                             Append(paths, file_path))
                           ELSE IF IsFile(file_path)
                           THEN project_walk(project, i + 1,
                                    Append(paths, Dirname(file_path)))
                           ELSE project_walk(project, i + 1, paths)
             ELSE project_walk(project, i + 1, paths)

\* root.find('Project') is None when the section is absent, and iterating
\* None raises TypeError
get_project_paths(root) ==
    IF IsNone(root.project) THEN [exc |-> "TypeError", paths |-> <<>>]
    ELSE project_walk(root.project[1], 1, <<>>)

----------------------------------------------------------------------------
(* __event_from_class, __event_from_method *)

\* the part both methods share once the source path is looked up: the
\* early return, int(start, default 0), the BugPathEvent
located_event(element, source_path, cache) ==
    IF IsNone(source_path)
    THEN [exc |-> NoException, event |-> None, cache |-> cache]
    ELSE LET start == element.sourceLine[1].start
         IN  IF ~IsNone(start) /\ ~IsIntLiteral(start[1])
             THEN [exc |-> "ValueError", event |-> None, cache |-> cache]
             ELSE [exc |-> NoException,
                   event |-> Some(BugPathEvent(
                       element.message[1],
                       File(source_path[1]),
                       IF IsNone(start) THEN 0 ELSE IntOf(start[1]),
                       0)),
                   cache |-> get_or_create_file(source_path[1], cache)]

\* element.find('Message') is None when the child is absent, and .text of
\* None raises AttributeError
event_from_class(element, paths, cache) ==
    IF IsNone(element.message)
    THEN [exc |-> "AttributeError", event |-> None, cache |-> cache]
    ELSE located_event(element,
                       get_source_path(element.sourceLine, paths), cache)

event_from_method(element, paths, cache) ==
    IF IsNone(element.message)
    THEN [exc |-> "AttributeError", event |-> None, cache |-> cache]
    ELSE located_event(element,
                       get_source_path(element.sourceLine, paths), cache)

----------------------------------------------------------------------------
(* __parse_bug *)

\* the dispatch on the tag of one direct child of the BugInstance
event_of(element, paths, cache) ==
    IF element.tag = "Class" THEN event_from_class(element, paths, cache)
    ELSE IF element.tag = "Method"
    THEN event_from_method(element, paths, cache)
    ELSE [exc |-> NoException, event |-> None, cache |-> cache]

RECURSIVE events_walk(_, _, _, _, _)

\* the loop body leaving the loop at the first child that yields no event
events_next_break(children, i, paths, events, r) ==
    IF r.exc # NoException
    THEN [exc |-> r.exc, events |-> events, cache |-> r.cache]
    ELSE IF IsNone(r.event)
    THEN [exc |-> NoException, events |-> events, cache |-> r.cache]
    ELSE events_walk(children, i + 1, paths, r.cache,
                     Append(events, r.event[1]))

\* the loop body after the dispatch: r is what the dispatch handed back
events_next(children, i, paths, events, r) ==
    IF r.exc # NoException
    THEN [exc |-> r.exc, events |-> events, cache |-> r.cache]
    ELSE events_walk(children, i + 1, paths, r.cache,
                     IF IsNone(r.event) THEN events
                     ELSE Append(events, r.event[1]))

\* the loop over list(bug): events collected so far, the table so far
events_walk(children, i, paths, cache, events) ==
    IF i > Len(children)
    THEN [exc |-> NoException, events |-> events, cache |-> cache]
    ELSE events_next(children, i, paths, events,
                     event_of(children[i], paths, cache))

\* the same search without reversed()
RECURSIVE first_positive_line(_)
first_positive_line(events) ==
    IF events = <<>> THEN 0
    ELSE IF events[1].line > 0 THEN events[1].line
    ELSE first_positive_line(Tail(events))

\* next((e.line for e in reversed(events) if e.line > 0), 0)
RECURSIVE last_positive_line(_)
last_positive_line(events) ==
    IF events = <<>> THEN 0
    ELSE IF events[Len(events)].line > 0 THEN events[Len(events)].line
    ELSE last_positive_line(SubSeq(events, 1, Len(events) - 1))

\* the Report without the final append
build_report_no_final(file, line, message, checker_name, report_hash, events) ==
    Report(file, line, 0, message, checker_name, report_hash, events)

\* the Report of lines 131-143: the events, then the report's own location
build_report(file, line, message, checker_name, report_hash, events) ==
    Report(file, line, 0, message, checker_name, report_hash,
           Append(events, BugPathEvent(message, file, line, 0)))

\* lines 126-143, w being what the loop over the children handed back;
\* get_or_create_file is evaluated before int(line)
report_of(bug, path, w) ==
    LET line == bug.sourceLine[1].start
    IN  IF w.exc # NoException
        THEN [exc |-> w.exc, report |-> None, cache |-> w.cache]
        ELSE IF ~IsNone(line) /\ ~IsIntLiteral(line[1])
        THEN [exc |-> "ValueError", report |-> None,
              cache |-> get_or_create_file(path, w.cache)]
        ELSE [exc |-> NoException,
              report |-> Some(build_report(
                  File(path),
                  IF IsNone(line) THEN last_positive_line(w.events)
                  ELSE IntOf(line[1]),
                  bug.longMessage[1], bug.type, bug.instanceHash, w.events)),
              cache |-> get_or_create_file(path, w.cache)]

\* lines 109-124: the early return, then the loop over the children
located_bug(bug, source_path, paths, cache) ==
    IF IsNone(source_path)
    THEN [exc |-> NoException, report |-> None, cache |-> cache]
    ELSE report_of(bug, source_path[1],
                   events_walk(bug.children, 1, paths, cache, <<>>))

\* bug.find('LongMessage') is None when the child is absent, and .text of
\* None raises AttributeError
parse_bug(bug, paths, cache) ==
    IF IsNone(bug.longMessage)
    THEN [exc |-> "AttributeError", report |-> None, cache |-> cache]
    ELSE located_bug(bug, get_source_path(bug.sourceLine, paths), paths,
                     cache)

----------------------------------------------------------------------------
(* get_reports *)

\* __parse_analyzer_result: the root element, or None on OSError (missing
\* file) and on ET.ParseError (not well-formed)
parse_analyzer_result(d) == IF d.kind = "ok" THEN Some(d) ELSE None

RECURSIVE bugs_walk(_, _, _, _, _)

\* the loop body after __parse_bug: r is what __parse_bug handed back
bugs_next(bugs, i, paths, reports, r) ==
    IF r.exc # NoException
    THEN [exc |-> r.exc, reports |-> <<>>, cache |-> r.cache]
    ELSE bugs_walk(bugs, i + 1, paths, r.cache,
                   IF IsNone(r.report) THEN reports
                   ELSE Append(reports, r.report[1]))

\* the loop over root.findall('BugInstance')
bugs_walk(bugs, i, paths, cache, reports) ==
    IF i > Len(bugs)
    THEN [exc |-> NoException, reports |-> reports, cache |-> cache]
    ELSE bugs_next(bugs, i, paths, reports, parse_bug(bugs[i], paths, cache))

\* what a call hands back and leaves behind: exc is the exception that
\* leaves the call (NoException: it returns reports)
outcome(new_paths, b) ==
    [exc |-> b.exc, reports |-> b.reports, paths |-> new_paths,
     cache |-> b.cache]

\* a call that adds its roots to those of the calls before it
convert_root_accumulating(root, p, paths, cache) ==
    IF p.exc # NoException
    THEN [exc |-> p.exc, reports |-> <<>>, paths |-> paths, cache |-> cache]
    ELSE outcome(paths \o p.paths,
                 bugs_walk(root.bugs, 1, paths \o p.paths, cache, <<>>))

\* lines 44-51, p being what __get_project_paths handed back: the roots
\* are assigned, then the entries are parsed with them
convert_root(root, p, paths, cache) ==
    IF p.exc # NoException
    THEN [exc |-> p.exc, reports |-> <<>>, paths |-> paths, cache |-> cache]
    ELSE outcome(p.paths, bugs_walk(root.bugs, 1, p.paths, cache, <<>>))

\* lines 40-44: no root, no reports and nothing touched
convert(root, paths, cache) ==
    IF IsNone(root)
    THEN [exc |-> NoException, reports |-> <<>>, paths |-> paths,
          cache |-> cache]
    ELSE convert_root(root[1], get_project_paths(root[1]), paths, cache)

\* one call on an instance whose fields are paths and cache
get_reports_run(d, paths, cache) ==
    convert(parse_analyzer_result(d), paths, cache)

\* the effect of a call on d that ran as r
complete_call(d, r) ==
    /\ project_paths' = r.paths
    /\ file_cache' = r.cache
    /\ result' = [exc |-> r.exc, reports |-> r.reports]
    /\ doc' = d
    /\ calls' = calls + 1

get_reports(d) ==
    complete_call(d, get_reports_run(d, project_paths, file_cache))

----------------------------------------------------------------------------
(* The documents the converter is run on *)

SourceLine(sourcepath, start) == [sourcepath |-> sourcepath, start |-> start]

Element(tag, message, source_line) ==
    [tag |-> tag, message |-> message, sourceLine |-> source_line]

BugInstance(hash, type, long_message, source_line, children) ==
    [instanceHash |-> hash, type |-> type, longMessage |-> long_message,
     sourceLine |-> source_line, children |-> children]

ProjectChild(tag, text) == [tag |-> tag, text |-> text]

Document(project, bugs) == [kind |-> "ok", project |-> project, bugs |-> bugs]

\* a path that names no file, and a file that is not well-formed XML
MissingFile == [kind |-> "missing", project |-> None, bugs |-> <<>>]

MalformedFile == [kind |-> "malformed", project |-> None, bugs |-> <<>>]

\* before the first call
NoDocument == [kind |-> "none", project |-> None, bugs |-> <<>>]

SeqsUpTo(S, n) == UNION { [1..k -> S] : k \in 0..n }

R1 == <<"/", "r1">>

R2 == <<"/", "r2">>

\* sourcepath attributes: F lies under both roots, G under /r2 only, H in
\* the working directory, X nowhere
SourcePaths == { <<"F">>, <<"G">>, <<"H">>, <<"X">>, <<"/", "r1", "F">> }

(* documents of the whole-conversion specification *)

MainProjects ==
    { None, Some(<<>>), Some(<<ProjectChild("SrcDir", Some(R1))>>),
      Some(<<ProjectChild("SrcDir", Some(R2))>>),
      Some(<<ProjectChild("Jar", None)>>) }

MainBugs ==
    { BugInstance(Some("H1"), Some("CHK1"), Some("m1"),
                  Some(SourceLine(Some(<<"F">>), Some(<<"7">>))), <<>>),
      BugInstance(None, Some("CHK2"), Some("m2"),
                  Some(SourceLine(Some(<<"G">>), None)),
                  <<Element("Method", Some("in method"),
                            Some(SourceLine(Some(<<"G">>), Some(<<"7">>))))>>),
      BugInstance(Some("H3"), Some("CHK1"), Some("m3"),
                  Some(SourceLine(Some(<<"H">>), Some(<<"1", "2">>))), <<>>),
      BugInstance(Some("H4"), Some("CHK1"), None,
                  Some(SourceLine(Some(<<"F">>), Some(<<"7">>))), <<>>),
      BugInstance(Some("H5"), Some("CHK1"), Some("m5"), None, <<>>),
      BugInstance(Some("H6"), Some("CHK1"), Some("m6"),
                  Some(SourceLine(None, Some(<<"7">>))), <<>>),
      BugInstance(Some("H7"), Some("CHK1"), Some("m7"),
                  Some(SourceLine(Some(<<"X">>), Some(<<"7">>))), <<>>),
      BugInstance(Some("H8"), Some("CHK1"), Some("m8"),
                  Some(SourceLine(Some(<<"H">>), Some(<<"x">>))), <<>>),
      BugInstance(Some("H9"), Some("CHK1"), Some("m9"),
                  Some(SourceLine(Some(<<"H">>), Some(<<"7">>))),
                  <<Element("Class", None,
                            Some(SourceLine(Some(<<"H">>), None)))>>) }

MainDocuments ==
    { MissingFile, MalformedFile } \cup
    { Document(p, b) : p \in MainProjects, b \in SeqsUpTo(MainBugs, MaxBugs) }

(* documents of the history specification: one entry at most, or two of   *)
(* the entries that differ in the path they name                           *)

HistoryBugs ==
    { BugInstance(Some("H1"), Some("CHK1"), Some("m1"),
                  Some(SourceLine(Some(sp), None)),
                  <<Element("Class", Some("in class"),
                            Some(SourceLine(Some(cp), Some(<<"7">>))))>>) :
          sp \in { <<"F">>, <<"G">>, <<"H">> }, cp \in { <<"F">>, <<"G">> } }
    \cup
    { BugInstance(Some("H4"), Some("CHK1"), None,
                  Some(SourceLine(Some(<<"F">>), Some(<<"7">>))), <<>>),
      BugInstance(Some("H8"), Some("CHK1"), Some("m8"),
                  Some(SourceLine(Some(<<"G">>), Some(<<"x">>))), <<>>) }

HistoryPairs ==
    { <<BugInstance(Some("H1"), Some("CHK1"), Some("m1"),
                    Some(SourceLine(Some(a), Some(<<"7">>))), <<>>),
        BugInstance(Some("H2"), Some("CHK2"), Some("m2"),
                    Some(SourceLine(Some(b), Some(<<"1", "2">>))), <<>>)>> :
          a \in { <<"F">>, <<"G">> }, b \in { <<"F">>, <<"G">>, <<"X">> } }

HistoryProjects ==
    MainProjects \cup
    { Some(<<ProjectChild("SrcDir", Some(R1)),
             ProjectChild("Jar", Some(R2))>>),
      Some(<<ProjectChild("SrcDir", Some(R2)),
             ProjectChild("AuxClasspathEntry", Some(R1 \o <<"J">>))>>) }

HistoryDocuments ==
    { MissingFile, MalformedFile } \cup
    { Document(p, b) : p \in HistoryProjects,
                       b \in SeqsUpTo(HistoryBugs, 1) \cup HistoryPairs }

(* documents of the entry specification: one entry, its nested children *)

EntryChildren ==
    { Element("Class", Some("in class"),
              Some(SourceLine(Some(<<"F">>), Some(<<"7">>)))),
      Element("Method", Some("in method"),
              Some(SourceLine(Some(<<"F">>), Some(<<"1", "2">>)))),
      Element("Class", Some("in class"),
              Some(SourceLine(Some(<<"X">>), Some(<<"1", "2">>)))),
      Element("Method", Some("in method"),
              Some(SourceLine(Some(<<"X">>), Some(<<"x">>)))),
      Element("Method", Some("in method"),
              Some(SourceLine(Some(<<"F">>), Some(<<"x">>)))),
      Element("Class", Some("in class"),
              Some(SourceLine(Some(<<"F">>), None))),
      Element("Field", Some("in field"),
              Some(SourceLine(Some(<<"F">>), Some(<<"1", "2">>)))),
      Element("Class", Some("in class"), None),
      Element("Method", Some("in method"),
              Some(SourceLine(None, Some(<<"1", "2">>)))),
      Element("Class", None,
              Some(SourceLine(Some(<<"F">>), Some(<<"7">>)))),
      Element("Method", Some("in method"),
              Some(SourceLine(Some(<<"G">>), Some(<<"-", "1">>)))) }

EntryPrimaries ==
    { <<Some("m1"), Some(SourceLine(Some(<<"F">>), None))>>,
      <<Some("m1"), Some(SourceLine(Some(<<"F">>), Some(<<"1", "2">>)))>>,
      <<Some("m1"), Some(SourceLine(Some(<<"G">>), Some(<<"0">>)))>>,
      <<Some("m1"), Some(SourceLine(Some(<<"F">>), Some(<<"-", "1">>)))>>,
      <<Some("m1"), Some(SourceLine(Some(<<"F">>), Some(<<"x">>)))>>,
      <<Some("m1"), Some(SourceLine(Some(<<"X">>), None))>>,
      <<None, Some(SourceLine(Some(<<"F">>), None))>> }

EntryProjects ==
    { Some(<<ProjectChild("SrcDir", Some(R2))>>),
      Some(<<ProjectChild("SrcDir", Some(R1))>>) }

EntryDocuments ==
    { Document(p, <<BugInstance(Some("H1"), Some("CHK1"), e[1], e[2], c)>>) :
          p \in EntryProjects, e \in EntryPrimaries,
          c \in SeqsUpTo(EntryChildren, MaxChildren) }

(* documents of the path specification: the Project section varies *)

PathProjectChildren ==
    { ProjectChild(t, x) :
          t \in { "Jar", "AuxClasspathEntry", "SrcDir", "Plugin" },
          x \in { None, Some(R1), Some(R2), Some(R1 \o <<"J">>),
                  Some(<<"/", "nx">>) } }

PathBugs ==
    { BugInstance(Some("H1"), Some("CHK1"), Some("m1"),
                  Some(SourceLine(Some(sp), Some(<<"7">>))),
                  <<Element("Method", Some("in method"),
                            Some(SourceLine(Some(<<"G">>), None)))>>) :
          sp \in SourcePaths }

PathDocuments ==
    { Document(Some(p), <<b>>) :
          p \in SeqsUpTo(PathProjectChildren, MaxProjectChildren),
          b \in PathBugs }

----------------------------------------------------------------------------
(* Specifications *)

Init ==
    /\ project_paths = <<>>
    /\ file_cache = {}
    /\ doc = NoDocument
    /\ result = [exc |-> NoException, reports |-> <<>>]
    /\ calls = 0

\* any sequence of conversions on one instance
Next == calls < MaxCalls /\ \E d \in MainDocuments : get_reports(d)

Spec == Init /\ [][Next]_vars

NextHistory == calls < MaxCalls /\ \E d \in HistoryDocuments : get_reports(d)

SpecHistory == Init /\ [][NextHistory]_vars

\* one conversion of a one-entry document by a fresh instance
NextEntry == calls = 0 /\ \E d \in EntryDocuments : get_reports(d)

SpecEntry == Init /\ [][NextEntry]_vars

NextPath == calls = 0 /\ \E d \in PathDocuments : get_reports(d)

SpecPath == Init /\ [][NextPath]_vars

----------------------------------------------------------------------------
(* Vocabulary of the properties *)

Called == calls > 0

Returned == Called /\ result.exc = NoException

Max(S) == CHOOSE x \in S : \A y \in S : y <= x

Min(S) == CHOOSE x \in S : \A y \in S : x <= y

\* the number a start attribute of the documents above denotes
NumericValue(s) ==
    CASE s = <<"7">> -> 7 [] s = <<"1", "2">> -> 12 [] s = <<"0">> -> 0
      [] s = <<"-", "1">> -> 0 - 1

LineValue(start) == IF IsNone(start) THEN 0 ELSE NumericValue(start[1])

\* the entry and the report of a one-entry document
TheBug == doc.bugs[1]

HasReport == Returned /\ Len(result.reports) = 1

TheReport == result.reports[1]

\* the events before the final one
Nested(report) ==
    SubSeq(report.bug_path_events, 1, Len(report.bug_path_events) - 1)

\* a nested child that yields an event
IsEventTag(element) == element.tag \in { "Class", "Method" }

ResolvesUnder(element, roots) ==
    /\ ~IsNone(element.sourceLine)
    /\ ~IsNone(element.sourceLine[1].sourcepath)
    /\ \/ Exists(element.sourceLine[1].sourcepath[1])
       \/ \E i \in 1..Len(roots) :
              Exists(Join(roots[i], element.sourceLine[1].sourcepath[1]))

Resolves(element) == ResolvesUnder(element, project_paths)

\* the candidate roots a document declares
OwnRoots(d) == get_project_paths(d).paths

\* what a fresh instance hands back for a document
Handed(r) == [exc |-> r.exc, reports |-> r.reports]

FreshResult(d) == Handed(get_reports_run(d, <<>>, {}))

----------------------------------------------------------------------------
(* C1: get_reports never raises past its caller; whatever the input file,  *)
(* it returns a list of reports.                                           *)
C1_NeverRaises == Called => result.exc = NoException

HasRequiredElements(bug) ==
    ~IsNone(bug.longMessage) /\ ~IsNone(bug.sourceLine)

(* C2: an entry without LongMessage or without its primary SourceLine is   *)
(* dropped silently; the call returns what it returns for the document     *)
(* without those entries.                                                  *)
C2_IncompleteEntryDropped ==
    (Called /\ doc.kind = "ok") =>
        result = FreshResult(Document(doc.project,
                                      SelectSeq(doc.bugs, HasRequiredElements)))

EntryConverts(bug) ==
    ~IsNone(bug.longMessage) /\ ResolvesUnder(bug, OwnRoots(doc))

(* C3: for a well-formed document the number of reports returned is at     *)
(* most the number of entries, and equals it exactly when every entry has  *)
(* its long message and a primary source path that resolves.  A call that  *)
(* raises hands its caller no report.                                      *)
C3_ReportCount ==
    (Called /\ doc.kind = "ok") =>
        /\ Len(result.reports) <= Len(doc.bugs)
        /\ Len(result.reports) = Len(doc.bugs)
               <=> \A i \in 1..Len(doc.bugs) : EntryConverts(doc.bugs[i])

\* the same count, whenever the call returns
C3_ReportCountWhenReturned ==
    (Returned /\ doc.kind = "ok") =>
        /\ Len(result.reports) <= Len(doc.bugs)
        /\ Len(result.reports) = Len(doc.bugs)
               <=> \A i \in 1..Len(doc.bugs) : EntryConverts(doc.bugs[i])

PositiveLines(events) ==
    { events[i].line : i \in { j \in 1..Len(events) : events[j].line > 0 } }

(* C4, as stated: when the primary location omits the starting line, the   *)
(* report's line is the greatest positive line among the entry's nested    *)
(* events, and 0 when none is positive.                                    *)
C4_GreatestPositiveLine ==
    (HasReport /\ IsNone(TheBug.sourceLine[1].start)) =>
        TheReport.line =
            IF PositiveLines(Nested(TheReport)) = {} THEN 0
            ELSE Max(PositiveLines(Nested(TheReport)))

PositiveAt(events) == { j \in 1..Len(events) : events[j].line > 0 }

(* C4, amended: when the primary location omits the starting line, the     *)
(* report's line is the line of the last of the entry's nested events      *)
(* whose line is positive, and 0 when none is positive.                    *)
C4_LastPositiveLine ==
    (HasReport /\ IsNone(TheBug.sourceLine[1].start)) =>
        TheReport.line =
            IF PositiveAt(Nested(TheReport)) = {} THEN 0
            ELSE Nested(TheReport)[Max(PositiveAt(Nested(TheReport)))].line

\* the last positive nested line is not the greatest one
C4_Witness ==
    /\ HasReport
    /\ IsNone(TheBug.sourceLine[1].start)
    /\ TheReport.line > 0
    /\ TheReport.line < Max(PositiveLines(Nested(TheReport)))

YieldsPositive(children) ==
    { i \in 1..Len(children) :
          /\ IsEventTag(children[i])
          /\ Resolves(children[i])
          /\ LineValue(children[i].sourceLine[1].start) > 0 }

(* C5: a declared starting line is the report's line; with none declared   *)
(* the report's line is that of the last child, in document order, that    *)
(* yields an event with a positive line, and 0 when there is none.         *)
C5_ReportLine ==
    HasReport =>
        TheReport.line =
            IF ~IsNone(TheBug.sourceLine[1].start)
            THEN NumericValue(TheBug.sourceLine[1].start[1])
            ELSE IF YieldsPositive(TheBug.children) = {} THEN 0
            ELSE LineValue(TheBug.children[Max(YieldsPositive(TheBug.children))]
                               .sourceLine[1].start)

\* a declared line of 0 stands although a nested event has a positive line
C5_Witness ==
    /\ HasReport
    /\ TheBug.sourceLine[1].start = Some(<<"0">>)
    /\ TheReport.line = 0
    /\ YieldsPositive(TheBug.children) # {}

YieldingChildren(bug) ==
    SelectSeq(bug.children, LAMBDA c : IsEventTag(c) /\ Resolves(c))

(* C6: the event trail of a report is one event per direct Class/Method    *)
(* child whose source path resolved, in document order, followed by one    *)
(* final event carrying the report's own message, file, line and column 0; *)
(* the trail is never empty.                                               *)
C6_EventTrail ==
    HasReport =>
        LET trail == TheReport.bug_path_events
            kids  == YieldingChildren(TheBug)
        IN  /\ Len(trail) = Len(kids) + 1
            /\ \A i \in 1..Len(kids) :
                   /\ trail[i].message = kids[i].message[1]
                   /\ trail[i].line = LineValue(kids[i].sourceLine[1].start)
                   /\ trail[i].column = 0
                   /\ Normal(trail[i].file.path) \in FSFiles
                   /\ trail[i].file.path[Len(trail[i].file.path)]
                          = kids[i].sourceLine[1].sourcepath[1][1]
            /\ trail[Len(trail)] = [message |-> TheReport.message,
                                    file |-> TheReport.file,
                                    line |-> TheReport.line, column |-> 0]
            /\ TheReport.column = 0
            /\ TheReport.message = TheBug.longMessage[1]

\* two nested events of different kinds around children that yield none
C6_Witness ==
    /\ HasReport
    /\ Len(TheReport.bug_path_events) = 3
    /\ TheReport.bug_path_events[1].message = "in method"
    /\ TheReport.bug_path_events[2].message = "in class"
    /\ TheReport.bug_path_events[1].line > TheReport.bug_path_events[2].line
    /\ TheReport.bug_path_events[3].line = 12

FailsToResolve(element) == IsEventTag(element) /\ ~Resolves(element)

WithoutFailingChildren(bug) ==
    [bug EXCEPT !.children =
         SelectSeq(bug.children, LAMBDA c : ~FailsToResolve(c))]

RootsHolding(source_path) ==
    { i \in 1..Len(project_paths) :
          Exists(Join(project_paths[i], source_path)) }

FirstMatch(source_path) ==
    IF Exists(source_path) THEN Some(source_path)
    ELSE IF RootsHolding(source_path) = {} THEN None
    ELSE Some(Join(project_paths[Min(RootsHolding(source_path))], source_path))

(* C8: resolution is first-match-wins: a path that exists as given is      *)
(* returned unchanged whatever the roots; otherwise the result is the join *)
(* with the first root, in list order, under which it exists; otherwise    *)
(* there is none.  Every report's file exists.                             *)
C8_FirstMatchWins ==
    (Returned /\ Len(doc.bugs) = 1) =>
        LET expected == FirstMatch(TheBug.sourceLine[1].sourcepath[1])
        IN  /\ IsNone(expected) <=> result.reports = <<>>
            /\ HasReport =>
                   /\ TheReport.file.path = expected[1]
                   /\ Exists(TheReport.file.path)
                   /\ \A i \in 1..Len(TheReport.bug_path_events) :
                          Exists(TheReport.bug_path_events[i].file.path)

\* two different roots both hold the file, and the first one wins
C8_Witness ==
    /\ HasReport
    /\ Len(project_paths) = 2
    /\ project_paths[1] # project_paths[2]
    /\ RootsHolding(TheBug.sourceLine[1].sourcepath[1]) = { 1, 2 }
    /\ ~Exists(TheBug.sourceLine[1].sourcepath[1])
    /\ TheReport.file.path = project_paths[1] \o TheBug.sourceLine[1].sourcepath[1]

NamesRoot(child) ==
    /\ child.tag \in { "Jar", "AuxClasspathEntry", "SrcDir" }
    /\ Normal(child.text[1]) \in (FSDirs \cup FSFiles)

RootOf(child) ==
    IF Normal(child.text[1]) \in FSDirs THEN child.text[1]
    ELSE SubSeq(child.text[1], 1, Len(child.text[1]) - 1)

(* C9: the candidate roots are, in document order, one root for each       *)
(* direct child of Project tagged Jar, AuxClasspathEntry or SrcDir whose   *)
(* text names an existing directory (itself) or an existing file (its      *)
(* directory); any other tag and any nonexistent path contribute none.     *)
C9_CandidateRoots ==
    (Called /\ doc.kind = "ok" /\ ~IsNone(doc.project)
            /\ \A i \in 1..Len(doc.project[1]) :
                   doc.project[1][i].tag \in { "Jar", "AuxClasspathEntry", "SrcDir" }
                       => ~IsNone(doc.project[1][i].text)) =>
        LET naming == SelectSeq(doc.project[1], NamesRoot)
        IN  project_paths = [i \in 1..Len(naming) |-> RootOf(naming[i])]

\* an unrecognized child naming a directory next to a recognized one
\* naming a file
C9_Witness ==
    /\ Called
    /\ doc.project = Some(<<ProjectChild("Plugin", Some(R2)),
                            ProjectChild("Jar", Some(R1 \o <<"J">>))>>)
    /\ project_paths = <<R1>>

(* C10: what a call hands back does not depend on the calls before it: it  *)
(* is what a fresh instance hands back for the same document.  The roots   *)
(* of a call that gets as far as the Project section are those of its own  *)
(* document alone, and a call whose file does not parse returns an empty   *)
(* list and leaves the roots and the interning table as they were.         *)
C10_Step ==
    /\ result' = FreshResult(doc')
    /\ (doc'.kind = "ok" /\ get_project_paths(doc').exc = NoException)
           => project_paths' = OwnRoots(doc')
    /\ doc'.kind # "ok" =>
           /\ result' = [exc |-> NoException, reports |-> <<>>]
           /\ project_paths' = project_paths
           /\ file_cache' = file_cache

C10_HistoryIndependent == [][C10_Step]_vars

\* an entry is dropped as unresolved although an earlier call, with other
\* roots, interned the very file it names
C10_Witness ==
    /\ calls = 2
    /\ Returned
    /\ Len(doc.bugs) = 1
    /\ result.reports = <<>>
    /\ TheBug.sourceLine[1].sourcepath = Some(<<"G">>)
    /\ File(R2 \o <<"G">>) \in file_cache

====
